---------------------------- MODULE Spec2Model ----------------------------
(***************************************************************************)
(* Model of diff.py: the pending-case filter.  The script loads the lines  *)
(* of output.txt (the done cases), then streams c4_cases.txt (all cases)   *)
(* with readline() and prints every right-stripped line that is not in the *)
(* loaded list.                                                            *)
(*                                                                         *)
(* A file is a sequence of characters as Python's text mode delivers them  *)
(* (line terminators already translated to "\n").  A line is a sequence of *)
(* characters; a list of lines is a sequence of such sequences.            *)
(***************************************************************************)
EXTENDS Integers, Sequences, FiniteSets

\* Longest all-cases file (c4_cases.txt), in characters.
MaxAll == 5
\* Longest done-cases file (output.txt), in characters.
MaxDone == 2
\* The same two lengths for the runs checked for termination.
MaxAllLive == 4
MaxDoneLive == 1

NL == "\n"
\* The characters of the model: two identifier letters, a blank, the terminator.
Char == {"a", "b", " ", NL}
\* What str.rstrip() with no argument removes.
Whitespace == {" ", NL}

OUTPUT_TXT == "output.txt"
C4_CASES == "c4_cases.txt"

VARIABLES
    exists,      \* the names of the files that can be opened for reading
    outputTxt,   \* content of output.txt (<<>> when it does not exist)
    c4Cases,     \* content of c4_cases.txt (<<>> when it does not exist)
    pc,          \* the line of diff.py executed next, "done" or "failed"
    done_cases,  \* the list done_cases
    pos,         \* read position of the open c4_cases.txt
    line,        \* the variable line
    case,        \* the variable case
    stdout,      \* the lines printed so far by the current run
    run,         \* 1 for the first run of the script, 2 for a second one
    prevOut      \* what the previous run printed (<<>> during the first)

vars == <<exists, outputTxt, c4Cases, pc, done_cases, pos, line, case,
          stdout, run, prevOut>>

----------------------------------------------------------------------------
(* Helpers on sequences *)

Range(s) == {s[i] : i \in 1..Len(s)}

SeqsUpTo(S, n) == UNION {[1..k -> S] : k \in 0..n}

----------------------------------------------------------------------------
(* str.rstrip() *)

\* Fault variant of rstrip: str.strip(), which also removes leading whitespace.
RECURSIVE StripBoth(_)
StripBoth(s) ==
    IF s = <<>> THEN <<>>
    ELSE IF s[Len(s)] \in Whitespace THEN StripBoth(SubSeq(s, 1, Len(s) - 1))
    ELSE IF s[1] \in Whitespace THEN StripBoth(Tail(s))
    ELSE s

RECURSIVE rstrip(_)
rstrip(s) ==
    IF s = <<>> THEN <<>>
    ELSE IF s[Len(s)] \in Whitespace THEN rstrip(SubSeq(s, 1, Len(s) - 1))
    ELSE s

----------------------------------------------------------------------------
(* Reading lines from a text file *)

\* Index of the end of the line that starts right after position p of f: the
\* first "\n" after p, or the end of the file when there is none.
LineEnd(f, p) ==
    LET nls == {i \in (p + 1)..Len(f) : f[i] = NL}
    IN  IF nls = {} THEN Len(f)
        ELSE CHOOSE i \in nls : \A j \in nls : i <= j

\* file.readline() at position p: the text up to and including the next "\n";
\* the empty string at end of file.
readline(f, p) == SubSeq(f, p + 1, LineEnd(f, p))

\* Iterating a file object (for line in file): its raw lines, in order.
RECURSIVE FileLines(_)
FileLines(f) ==
    IF f = <<>> THEN <<>>
    ELSE LET n == LineEnd(f, 0)
         IN  <<SubSeq(f, 1, n)>> \o FileLines(SubSeq(f, n + 1, Len(f)))

\* [line.rstrip() for line in file]
RECURSIVE RstripAll(_)
RstripAll(ls) ==
    IF ls = <<>> THEN <<>> ELSE <<rstrip(Head(ls))>> \o RstripAll(Tail(ls))

----------------------------------------------------------------------------
(* The script, one action per statement *)

TypeOK ==
    /\ exists \subseteq {OUTPUT_TXT, C4_CASES}
    /\ Len(outputTxt) <= MaxDone /\ Range(outputTxt) \subseteq Char
    /\ Len(c4Cases) <= MaxAll /\ Range(c4Cases) \subseteq Char
    /\ pc \in {"l2", "l3", "l4", "l6", "l7", "l8", "l9", "l10", "done", "failed"}
    /\ pos \in 0..Len(c4Cases)
    /\ run \in 1..2

Init ==
    /\ exists \in SUBSET {OUTPUT_TXT, C4_CASES}
    /\ outputTxt \in (IF OUTPUT_TXT \in exists THEN SeqsUpTo(Char, MaxDone) ELSE {<<>>})
    /\ c4Cases \in (IF C4_CASES \in exists THEN SeqsUpTo(Char, MaxAll) ELSE {<<>>})
    /\ pc = "l2"
    /\ done_cases = <<>>
    /\ pos = 0
    /\ line = <<>>
    /\ case = <<>>
    /\ stdout = <<>>
    /\ run = 1
    /\ prevOut = <<>>

\* The start of a run on the shorter files used for termination.
InitLive ==
    /\ Init
    /\ Len(outputTxt) <= MaxDoneLive
    /\ Len(c4Cases) <= MaxAllLive

\* line 2: done_cases = []
InitDone ==
    /\ pc = "l2"
    /\ done_cases' = <<>>
    /\ pc' = "l3"
    /\ UNCHANGED <<exists, outputTxt, c4Cases, pos, line, case, stdout, run, prevOut>>

\* line 3: with open("output.txt") as file -- raises when it cannot be opened
OpenDone ==
    /\ pc = "l3"
    /\ pc' = IF OUTPUT_TXT \in exists THEN "l4" ELSE "failed"
    /\ UNCHANGED <<exists, outputTxt, c4Cases, done_cases, pos, line, case,
                   stdout, run, prevOut>>

\* Fault variant of line 4: the raw lines are kept ([line for line in file]).
LoadDoneRaw ==
    /\ pc = "l4"
    /\ done_cases' = FileLines(outputTxt)
    /\ pc' = "l6"
    /\ UNCHANGED <<exists, outputTxt, c4Cases, pos, line, case, stdout, run, prevOut>>

\* line 4: done_cases = [line.rstrip() for line in file]
LoadDone ==
    /\ pc = "l4"
    /\ done_cases' = RstripAll(FileLines(outputTxt))
    /\ pc' = "l6"
    /\ UNCHANGED <<exists, outputTxt, c4Cases, pos, line, case, stdout, run, prevOut>>

\* Fault variant of line 6: a missing file is read as an empty one.
OpenAllIgnoreMissing ==
    /\ pc = "l6"
    /\ pos' = 0
    /\ pc' = "l7"
    /\ UNCHANGED <<exists, outputTxt, c4Cases, done_cases, line, case, stdout,
                   run, prevOut>>

\* line 6: with open("c4_cases.txt") as file -- raises when it cannot be opened
OpenAll ==
    /\ pc = "l6"
    /\ pos' = 0
    /\ pc' = IF C4_CASES \in exists THEN "l7" ELSE "failed"
    /\ UNCHANGED <<exists, outputTxt, c4Cases, done_cases, line, case, stdout,
                   run, prevOut>>

\* Fault variant of line 7: while line := file.readline().rstrip(), where a
\* blank line ends the loop.
ReadLineStripped ==
    /\ pc = "l7"
    /\ line' = rstrip(readline(c4Cases, pos))
    /\ pos' = LineEnd(c4Cases, pos)
    /\ pc' = IF line' = <<>> THEN "done" ELSE "l8"
    /\ UNCHANGED <<exists, outputTxt, c4Cases, done_cases, case, stdout, run, prevOut>>

\* line 7: while line := file.readline() -- the empty string (end of file) ends the loop
ReadLine ==
    /\ pc = "l7"
    /\ line' = readline(c4Cases, pos)
    /\ pos' = LineEnd(c4Cases, pos)
    /\ pc' = IF line' = <<>> THEN "done" ELSE "l8"
    /\ UNCHANGED <<exists, outputTxt, c4Cases, done_cases, case, stdout, run, prevOut>>

\* line 8: case = line.rstrip()
Strip ==
    /\ pc = "l8"
    /\ case' = rstrip(line)
    /\ pc' = "l9"
    /\ UNCHANGED <<exists, outputTxt, c4Cases, done_cases, pos, line, stdout, run, prevOut>>

\* Fault variant of line 9: a match uses up the done entry
\* (done_cases.remove(case)).
TestConsume ==
    /\ pc = "l9"
    /\ pc' = IF case \notin Range(done_cases) THEN "l10" ELSE "l7"
    /\ done_cases' =
           IF case \in Range(done_cases)
           THEN LET i == CHOOSE k \in 1..Len(done_cases) :
                             /\ done_cases[k] = case
                             /\ \A j \in 1..(k - 1) : done_cases[j] # case
                IN  SubSeq(done_cases, 1, i - 1)
                        \o SubSeq(done_cases, i + 1, Len(done_cases))
           ELSE done_cases
    /\ UNCHANGED <<exists, outputTxt, c4Cases, pos, line, case, stdout, run, prevOut>>

\* Fault variant of line 9: a pending case is recorded as done once seen.
TestMarkDone ==
    /\ pc = "l9"
    /\ pc' = IF case \notin Range(done_cases) THEN "l10" ELSE "l7"
    /\ done_cases' =
           IF case \notin Range(done_cases) THEN Append(done_cases, case)
           ELSE done_cases
    /\ UNCHANGED <<exists, outputTxt, c4Cases, pos, line, case, stdout, run, prevOut>>

\* Fault variant of line 9: if case and case not in done_cases, which drops
\* blank lines.
TestNonBlank ==
    /\ pc = "l9"
    /\ pc' = IF case # <<>> /\ case \notin Range(done_cases) THEN "l10" ELSE "l7"
    /\ UNCHANGED <<exists, outputTxt, c4Cases, done_cases, pos, line, case,
                   stdout, run, prevOut>>

\* line 9: if case not in done_cases
Test ==
    /\ pc = "l9"
    /\ pc' = IF case \notin Range(done_cases) THEN "l10" ELSE "l7"
    /\ UNCHANGED <<exists, outputTxt, c4Cases, done_cases, pos, line, case,
                   stdout, run, prevOut>>

\* Fault variant of line 10: each pending case is printed once only.
PrintDedup ==
    /\ pc = "l10"
    /\ stdout' = IF case \in Range(stdout) THEN stdout ELSE Append(stdout, case)
    /\ pc' = "l7"
    /\ UNCHANGED <<exists, outputTxt, c4Cases, done_cases, pos, line, case, run, prevOut>>

\* Fault variant of line 10: the newest line is put first.
PrintPrepend ==
    /\ pc = "l10"
    /\ stdout' = <<case>> \o stdout
    /\ pc' = "l7"
    /\ UNCHANGED <<exists, outputTxt, c4Cases, done_cases, pos, line, case, run, prevOut>>

\* Fault variant of line 10: the line is also appended to output.txt, the file
\* the done cases are read from.
PrintToOutputTxt ==
    /\ pc = "l10"
    /\ stdout' = Append(stdout, case)
    /\ outputTxt' = outputTxt \o case \o <<NL>>
    /\ pc' = "l7"
    /\ UNCHANGED <<exists, c4Cases, done_cases, pos, line, case, run, prevOut>>

\* line 10: print(case)
PrintCase ==
    /\ pc = "l10"
    /\ stdout' = Append(stdout, case)
    /\ pc' = "l7"
    /\ UNCHANGED <<exists, outputTxt, c4Cases, done_cases, pos, line, case, run, prevOut>>

\* The script is started again on the same files once the first run has ended
\* normally: a new process, with fresh variables and a fresh standard output.
Rerun ==
    /\ pc = "done"
    /\ run = 1
    /\ run' = 2
    /\ prevOut' = stdout
    /\ stdout' = <<>>
    /\ pc' = "l2"
    /\ done_cases' = <<>>
    /\ pos' = 0
    /\ line' = <<>>
    /\ case' = <<>>
    /\ UNCHANGED <<exists, outputTxt, c4Cases>>

Next ==
    \/ InitDone
    \/ OpenDone
    \/ LoadDone
    \/ OpenAll
    \/ ReadLine
    \/ Strip
    \/ Test
    \/ PrintCase

\* One run of the script.
Spec == Init /\ [][Next]_vars

\* One run; the interpreter always executes the next statement.
FairSpec == InitLive /\ [][Next]_vars /\ WF_vars(Next)

NextRerun == Next \/ Rerun

\* The script run twice in a row on the same files.
SpecRerun == Init /\ [][NextRerun]_vars

----------------------------------------------------------------------------
(* Vocabulary of the properties *)

\* The raw lines of a file's content, and their trimmed forms.
RawLines(f) == FileLines(f)
TrimmedLines(f) == RstripAll(FileLines(f))
TrimmedSet(f) == Range(TrimmedLines(f))

\* The elements of ls that are not in the set dn, in order.
RECURSIVE NotIn(_, _)
NotIn(ls, dn) ==
    IF ls = <<>> THEN <<>>
    ELSE (IF Head(ls) \in dn THEN <<>> ELSE <<Head(ls)>>) \o NotIn(Tail(ls), dn)

\* How often x occurs in the sequence s.
Count(s, x) == Cardinality({i \in 1..Len(s) : s[i] = x})

\* s can be obtained from t by deleting elements (order kept).
RECURSIVE IsSubseq(_, _)
IsSubseq(s, t) ==
    IF s = <<>> THEN TRUE
    ELSE IF t = <<>> THEN FALSE
    ELSE IF Head(s) = Head(t) THEN IsSubseq(Tail(s), Tail(t))
    ELSE IsSubseq(s, Tail(t))

\* x and y are equal up to what follows their last non-whitespace character.
SameButTrailingWs(x, y) ==
    \E k \in 0..(IF Len(x) <= Len(y) THEN Len(x) ELSE Len(y)) :
        /\ SubSeq(x, 1, k) = SubSeq(y, 1, k)
        /\ \A i \in (k + 1)..Len(x) : x[i] \in Whitespace
        /\ \A i \in (k + 1)..Len(y) : y[i] \in Whitespace

\* x is y without its trailing whitespace.
IsTrimOf(x, y) ==
    /\ Len(x) <= Len(y)
    /\ x = SubSeq(y, 1, Len(x))
    /\ \A i \in (Len(x) + 1)..Len(y) : y[i] \in Whitespace
    /\ (x = <<>> \/ x[Len(x)] \notin Whitespace)

BothExist == exists = {OUTPUT_TXT, C4_CASES}
InLoop == pc \in {"l7", "l8", "l9", "l10"}

\* The part of c4_cases.txt whose lines have been dealt with (printed or
\* skipped): everything read, less the line in hand between readline() and
\* the end of the iteration.
Handled == IF pc \in {"l8", "l9", "l10"} THEN pos - Len(line) ELSE pos

X == <<"a">>
Y == <<"b">>

----------------------------------------------------------------------------
(* The properties *)

\* C1: every line printed so far is the trimmed form of some line of
\* c4_cases.txt and is not the trimmed form of any line of output.txt.
C1_Soundness ==
    \A i \in 1..Len(stdout) :
        /\ \E l \in Range(RawLines(c4Cases)) : stdout[i] = rstrip(l)
        /\ \A d \in Range(RawLines(outputTxt)) : stdout[i] # rstrip(d)

\* A finished run that printed something and suppressed something.
C1_Witness ==
    /\ pc = "done"
    /\ stdout # <<>>
    /\ Len(stdout) < Len(RawLines(c4Cases))

\* C2: at normal termination the output is exactly the non-done line
\* occurrences of c4_cases.txt, each printed once: same count, and an
\* identifier pending k times is printed k times.
C2_Completeness ==
    pc = "done" =>
        /\ stdout = NotIn(TrimmedLines(c4Cases), TrimmedSet(outputTxt))
        /\ Len(stdout) =
               Cardinality({i \in 1..Len(RawLines(c4Cases)) :
                               rstrip(RawLines(c4Cases)[i]) \notin TrimmedSet(outputTxt)})
        /\ \A x \in TrimmedSet(c4Cases) \ TrimmedSet(outputTxt) :
               Count(stdout, x) = Count(TrimmedLines(c4Cases), x)

\* A finished run that printed the same pending identifier twice and
\* suppressed a done one.
C2_Witness ==
    /\ pc = "done"
    /\ \E i, j \in 1..Len(stdout) : i < j /\ stdout[i] = stdout[j]
    /\ Len(stdout) < Len(RawLines(c4Cases))
    /\ outputTxt # <<>>

C3_StepInv ==
    /\ (InLoop \/ pc = "done") =>
           stdout = NotIn(TrimmedLines(SubSeq(c4Cases, 1, Handled)), Range(done_cases))
    /\ IsSubseq(stdout, TrimmedLines(c4Cases))

C3_AppendOnly ==
    \/ stdout' = stdout
    \/ /\ Len(stdout') = Len(stdout) + 1
       /\ SubSeq(stdout', 1, Len(stdout)) = stdout

\* C3: at every point the output equals, in order, the pending trimmed lines
\* of the part of c4_cases.txt dealt with so far; the output is only appended
\* to, and is a subsequence of the file's trimmed lines.
C3_OrderPreserved == []C3_StepInv /\ [][C3_AppendOnly]_vars

\* A finished run that printed two different identifiers around a suppressed one.
C3_Witness ==
    /\ pc = "done"
    /\ Len(stdout) = 2
    /\ stdout[1] # stdout[2]
    /\ Len(RawLines(c4Cases)) = 3
    /\ rstrip(RawLines(c4Cases)[2]) \in Range(done_cases)

C4_Scenario ==
    (/\ pc = "done"
     /\ TrimmedLines(outputTxt) = <<X>>
     /\ TrimmedLines(c4Cases) = <<X, X, Y>>) => stdout = <<Y>>

C4_NeverDone ==
    (InLoop \/ pc = "done") =>
        /\ \A i \in 1..Len(stdout) : stdout[i] \notin Range(done_cases)
        /\ Range(done_cases) = TrimmedSet(outputTxt)

C4_Suppress ==
    (pc = "l9" /\ case \in TrimmedSet(outputTxt)) => (pc' = "l7" /\ stdout' = stdout)

\* C4: the test is against the list as loaded: a printed line is never a member
\* of it, every occurrence of a done identifier is skipped, and for done = [X],
\* all = [X, X, Y] the output is [Y].
C4_StaticDoneList == [](C4_Scenario /\ C4_NeverDone) /\ [][C4_Suppress]_vars

\* The scenario itself, finished.
C4_Witness ==
    /\ pc = "done"
    /\ TrimmedLines(outputTxt) = <<X>>
    /\ TrimmedLines(c4Cases) = <<X, X, Y>>
    /\ stdout = <<Y>>

\* C5: with an empty output.txt, the output at normal termination is the whole
\* sequence of trimmed lines of c4_cases.txt, blank lines included.
C5_EmptyDone ==
    (pc = "done" /\ outputTxt = <<>>) =>
        /\ stdout = TrimmedLines(c4Cases)
        /\ Len(stdout) = Len(RawLines(c4Cases))

\* A finished run on an empty output.txt that printed a blank line and
\* another line after it.
C5_Witness ==
    /\ pc = "done"
    /\ outputTxt = <<>>
    /\ OUTPUT_TXT \in exists
    /\ Len(stdout) >= 2
    /\ stdout[1] = <<>>
    /\ stdout[Len(stdout)] # <<>>

C6_AllRead == pc = "done" => (pos = Len(c4Cases) /\ line = <<>>)

\* C6: when both files can be opened the run reaches normal termination, and
\* only with the whole of c4_cases.txt read (a blank line does not end the loop).
C6_Termination == (BothExist ~> pc = "done") /\ []C6_AllRead

\* A finished run whose file has a blank line in the middle, with the line
\* after it printed.
C6_Witness ==
    /\ pc = "done"
    /\ Len(RawLines(c4Cases)) = 3
    /\ rstrip(RawLines(c4Cases)[2]) = <<>>
    /\ stdout # <<>>
    /\ stdout[Len(stdout)] = rstrip(RawLines(c4Cases)[3])
    /\ stdout[Len(stdout)] # <<>>

\* C7: a file that cannot be opened ends the run in the failed state: the run
\* never gets past the open, nothing follows the failure, and the output is
\* what it was before the failure (nothing: both opens precede the loop).
C7_IOFailure ==
    /\ OUTPUT_TXT \notin exists => pc \in {"l2", "l3", "failed"}
    /\ C4_CASES \notin exists => pc \in {"l2", "l3", "l4", "l6", "failed"}
    /\ pc = "done" => BothExist
    /\ pc = "failed" => (~BothExist /\ stdout = <<>> /\ ~ENABLED Next)

\* The run failed on c4_cases.txt after loading a non-empty done list.
C7_Witness ==
    /\ pc = "failed"
    /\ OUTPUT_TXT \in exists
    /\ C4_CASES \notin exists
    /\ done_cases # <<>>

\* C8: a second run on the same files prints what the first one printed.
C8_Idempotent ==
    /\ (run = 2 /\ pc = "done") => stdout = prevOut
    /\ (run = 2 /\ InLoop) => stdout = SubSeq(prevOut, 1, Len(stdout))

\* Two finished runs that each printed two lines and suppressed one.
C8_Witness ==
    /\ run = 2
    /\ pc = "done"
    /\ Len(stdout) = 2
    /\ Len(RawLines(c4Cases)) = 3

C9_DoneFrozen == pc \in {"l6", "l7", "l8", "l9", "l10", "done"} => done_cases' = done_cases

C9_FilesKept == outputTxt' = outputTxt /\ c4Cases' = c4Cases /\ exists' = exists

\* C9: after the load no step changes done_cases, and no step changes the
\* content of either file.
C9_Frame == [][C9_DoneFrozen /\ C9_FilesKept]_vars

\* A finished run, with a non-empty done list, that skipped a line and then
\* printed one.
C9_Witness ==
    /\ pc = "done"
    /\ done_cases # <<>>
    /\ Len(RawLines(c4Cases)) = 2
    /\ rstrip(RawLines(c4Cases)[1]) \in Range(done_cases)
    /\ Len(stdout) = 1

C10_Step ==
    /\ (pc = "l9" /\ \E d \in Range(RawLines(outputTxt)) : SameButTrailingWs(line, d))
           => pc' = "l7"
    /\ (pc = "l9" /\ \A d \in Range(RawLines(outputTxt)) : ~SameButTrailingWs(line, d))
           => pc' = "l10"
    /\ stdout' # stdout =>
           (Len(stdout') = Len(stdout) + 1 /\ IsTrimOf(stdout'[Len(stdout')], line))

\* C10: a line that differs from a done line only in trailing whitespace or
\* terminator is skipped; a line that differs from every done line elsewhere
\* (leading or internal whitespace included) is printed; what is printed is
\* the line without its trailing whitespace.
C10_Trimming == [][C10_Step]_vars

\* Done "a" with trailing whitespace in output.txt; the line " a" was printed
\* and a line trimming to "a" was skipped.
C10_Witness ==
    /\ pc = "done"
    /\ outputTxt # X
    /\ done_cases = <<X>>
    /\ stdout = << <<" ", "a">> >>
    /\ X \in TrimmedSet(c4Cases)

=============================================================================
